---- MODULE Spec2Model ----
(***************************************************************************)
(* A Report entity driven by the ReportWorkflow state machine.  Transition *)
(* methods are decorated with check_any / check_all guard combinators and  *)
(* with keep_history; xworkflows wraps each of them with the legality      *)
(* check, the hooks and the state change.                                  *)
(***************************************************************************)
EXTENDS Integers, Sequences, FiniteSets, TLC

VARIABLES title, content, keywords, checks, state, history, decorators, last, pos,
          factory, siblings, threads

vars == <<title, content, keywords, checks, state, history, decorators, last, pos,
          factory, siblings, threads>>

(***************************************************************************)
(* Bounds of the exploration.                                              *)
(***************************************************************************)
MaxHistory == 4
MaxChecks == 2

(***************************************************************************)
(* Python values: None, a string, or (for a keyword argument) not passed.  *)
(***************************************************************************)
PyNone == <<"None">>
PyStr(s) == <<"str", s>>
Absent == <<"absent">>

\* str(v) as used by an f-string
Format(v) == IF v = PyNone THEN "None" ELSE v[2]

(***************************************************************************)
(* ReportWorkflow: states, transitions and the initial state.              *)
(***************************************************************************)
States == {"draft", "ready", "complete", "submitted", "done", "approved", "cancelled"}

TransitionNames == {"prepare", "finish", "submit", "approve", "reject", "cancel"}

\* finish is also declared available from submitted
SourceFinishFromSubmitted(t) ==
    CASE t = "prepare" -> {"draft"}
      [] t = "finish"  -> {"ready", "submitted"}
      [] t = "submit"  -> {"complete"}
      [] t = "approve" -> {"submitted"}
      [] t = "reject"  -> {"submitted"}
      [] t = "cancel"  -> {"ready", "complete"}

\* cancel is also declared available from draft
SourceCancelFromDraft(t) ==
    CASE t = "prepare" -> {"draft"}
      [] t = "finish"  -> {"ready"}
      [] t = "submit"  -> {"complete"}
      [] t = "approve" -> {"submitted"}
      [] t = "reject"  -> {"submitted"}
      [] t = "cancel"  -> {"draft", "ready", "complete"}

Source(t) ==
    CASE t = "prepare" -> {"draft"}
      [] t = "finish"  -> {"ready"}
      [] t = "submit"  -> {"complete"}
      [] t = "approve" -> {"submitted"}
      [] t = "reject"  -> {"submitted"}
      [] t = "cancel"  -> {"ready", "complete"}

Target(t) ==
    CASE t = "prepare" -> "ready"
      [] t = "finish"  -> "complete"
      [] t = "submit"  -> "submitted"
      [] t = "approve" -> "approved"
      [] t = "reject"  -> "ready"
      [] t = "cancel"  -> "cancelled"

\* the workflow starts at ready
InitialStateReady == "ready"

initial_state == "draft"

(***************************************************************************)
(* Checks: (name, expression, error message).                              *)
(***************************************************************************)
HasContentExpr == "doc.content is not None and len(doc.content) > 0"
HasKeywordsExpr == "doc.keywords"
TitleSizeExpr == "len(doc.title) >= 8"

checks_list ==
    [has_content  |-> [expr |-> HasContentExpr,  error_msg |-> "Content is empty"],
     has_keywords |-> [expr |-> HasKeywordsExpr, error_msg |-> "No keywords defined"],
     title_size   |-> [expr |-> TitleSizeExpr,   error_msg |-> "Title too short (at least 8 chars)"]]

CheckNames == DOMAIN checks_list

\* CheckList(checks=[Check(*spec) for spec in checks]) for a sub-list of checks_list
CheckList(names) == [n \in names |-> checks_list[n]]

\* the entity as the expressions see it
Doc == [title |-> title, content |-> content, keywords |-> keywords]

\* title_size written with an off-by-one threshold
VerifyTitleOffByOne(expr, doc) ==
    CASE expr = HasContentExpr  -> doc.content # PyNone /\ Len(doc.content[2]) > 0
      [] expr = HasKeywordsExpr -> Len(doc.keywords) > 0
      [] expr = TitleSizeExpr   -> Len(doc.title) >= 7

\* truth value of eval(expr, {'doc': doc})
Verify(expr, doc) ==
    CASE expr = HasContentExpr  -> doc.content # PyNone /\ Len(doc.content[2]) > 0
      [] expr = HasKeywordsExpr -> Len(doc.keywords) > 0
      [] expr = TitleSizeExpr   -> Len(doc.title) >= 8

(***************************************************************************)
(* Exceptions, as (type, message).                                         *)
(***************************************************************************)
NoError == [type |-> "none", msg |-> ""]
Exception(msg) == [type |-> "Exception", msg |-> msg]
KeyError(name) == [type |-> "KeyError", msg |-> name]
TypeError(msg) == [type |-> "TypeError", msg |-> msg]
InvalidTransitionError(t, s) ==
    [type |-> "InvalidTransitionError",
     msg  |-> "Transition '" \o t \o "' isn't available from state '" \o s \o "'."]

(***************************************************************************)
(* The decorators of Report's transition methods, outermost first; every   *)
(* method is also wrapped by keep_history, innermost.                      *)
(***************************************************************************)
ReportDecorators ==
    [t \in TransitionNames |->
        CASE t = "prepare" -> [combinator |-> "check_any", checks |-> <<"has_content", "has_keywords">>]
          [] t = "finish"  -> [combinator |-> "check_all", checks |-> <<"has_content", "title_size">>]
          [] OTHER         -> [combinator |-> "none", checks |-> <<>>]]

(***************************************************************************)
(* check_all: the loop over the named checks, from the i-th on.  The       *)
(* result is the exception raised (or NoError) and the evaluations made.   *)
(***************************************************************************)
RECURSIVE CheckAllFrom(_, _, _, _)
CheckAllFrom(names, i, cl, doc) ==
    IF i > Len(names) THEN [err |-> NoError, steps |-> <<>>]
    ELSE IF names[i] \notin DOMAIN cl THEN [err |-> KeyError(names[i]), steps |-> <<>>]
    ELSE IF ~Verify(cl[names[i]].expr, doc)
         THEN [err |-> Exception(cl[names[i]].error_msg), steps |-> << <<"verify", names[i]>> >>]
    ELSE LET rest == CheckAllFrom(names, i + 1, cl, doc)
         IN  [err |-> rest.err, steps |-> << <<"verify", names[i]>> >> \o rest.steps]

(***************************************************************************)
(* check_any: the loop collects the failures; the call is rejected when    *)
(* there are as many failures as checks.                                   *)
(***************************************************************************)
RECURSIVE CheckAnyFrom(_, _, _, _)
CheckAnyFrom(names, i, cl, doc) ==
    IF i > Len(names) THEN [err |-> NoError, steps |-> <<>>, failures |-> <<>>]
    ELSE IF names[i] \notin DOMAIN cl
         THEN [err |-> KeyError(names[i]), steps |-> <<>>, failures |-> <<>>]
    ELSE LET rest == CheckAnyFrom(names, i + 1, cl, doc)
             failed == IF Verify(cl[names[i]].expr, doc) THEN <<>>
                       ELSE << <<names[i], cl[names[i]].error_msg>> >>
         IN  [err |-> rest.err,
              steps |-> << <<"verify", names[i]>> >> \o rest.steps,
              failures |-> failed \o rest.failures]

\* every check is evaluated before the first failure is raised
CheckAllEvaluatesEvery(names, cl, doc) ==
    LET r == CheckAnyFrom(names, 1, cl, doc)
    IN  [err |-> IF r.err # NoError THEN r.err
                 ELSE IF r.failures # <<>> THEN Exception(r.failures[1][2])
                 ELSE NoError,
         steps |-> r.steps]

check_all(names, cl, doc) == CheckAllFrom(names, 1, cl, doc)

\* the call is rejected as soon as one check has failed
CheckAnyRejectsAnyFailure(t, names, cl, doc) ==
    LET r == CheckAnyFrom(names, 1, cl, doc)
    IN  [err |-> IF r.err # NoError THEN r.err
                 ELSE IF Len(r.failures) > 0 \/ Len(names) = 0
                      THEN Exception("All checks failed for " \o t)
                      ELSE NoError,
         steps |-> r.steps]

\* a name that is not in the CheckList counts as a failed check
CheckAnyUnknownIsFailure(t, names, cl, doc) ==
    LET failed == {i \in DOMAIN names :
                      names[i] \notin DOMAIN cl \/ ~Verify(cl[names[i]].expr, doc)}
    IN  [err |-> IF Cardinality(failed) = Len(names)
                 THEN Exception("All checks failed for " \o t)
                 ELSE NoError,
         steps |-> [i \in DOMAIN names |-> <<"verify", names[i]>>]]

\* the loop stops at the first check that passes
CheckAnyStopsAtFirstPass(t, names, cl, doc) ==
    LET r == CheckAnyFrom(names, 1, cl, doc)
        passing == {i \in DOMAIN names :
                       names[i] \in DOMAIN cl /\ Verify(cl[names[i]].expr, doc)}
        first == CHOOSE i \in passing : \A j \in passing : i <= j
    IN  IF r.err # NoError THEN [err |-> r.err, steps |-> r.steps]
        ELSE IF passing # {} THEN [err |-> NoError, steps |-> SubSeq(r.steps, 1, first)]
        ELSE [err |-> Exception("All checks failed for " \o t), steps |-> r.steps]

\* the call is rejected only when there are more failures than checks
CheckAnyRejectsOnMoreFailures(t, names, cl, doc) ==
    LET r == CheckAnyFrom(names, 1, cl, doc)
    IN  [err |-> IF r.err # NoError THEN r.err
                 ELSE IF Len(r.failures) > Len(names)
                      THEN Exception("All checks failed for " \o t)
                      ELSE NoError,
         steps |-> r.steps]

\* an empty list of checks lets the call through
CheckAnyEmptyListPasses(t, names, cl, doc) ==
    LET r == CheckAnyFrom(names, 1, cl, doc)
    IN  [err |-> IF r.err # NoError THEN r.err
                 ELSE IF Len(names) > 0 /\ Len(r.failures) = Len(names)
                      THEN Exception("All checks failed for " \o t)
                      ELSE NoError,
         steps |-> r.steps]

check_any(t, names, cl, doc) ==
    LET r == CheckAnyFrom(names, 1, cl, doc)
    IN  [err |-> IF r.err # NoError THEN r.err
                 ELSE IF Len(r.failures) = Len(names)
                      THEN Exception("All checks failed for " \o t)
                      ELSE NoError,
         steps |-> r.steps]

(***************************************************************************)
(* The transition methods' bodies: def <t>(self, user): pass.  Calling one *)
(* binds the positional and keyword arguments to the parameter user.       *)
(* Calls pass at most one positional argument and no keyword but user.     *)
(***************************************************************************)
Effect(t, args, kw) ==
    IF Len(args) = 1 /\ kw # Absent
    THEN [err |-> TypeError("multiple values for argument 'user'"), steps |-> <<>>]
    ELSE IF Len(args) = 0 /\ kw = Absent
    THEN [err |-> TypeError("missing 1 required positional argument: 'user'"), steps |-> <<>>]
    ELSE [err |-> NoError,
          steps |-> << <<"effect", t, Format(IF Len(args) = 1 THEN args[1] ELSE kw)>> >>]

(***************************************************************************)
(* keep_history: picks the acting user, appends "<user>: <name>" to the    *)
(* history, then calls the wrapped method.                                 *)
(***************************************************************************)
\* kwargs.get('user')
KwGet(kw) == IF kw = Absent THEN PyNone ELSE kw

\* the positional argument wins over the named one
ActorPositionalFirst(args, kw) ==
    IF Len(args) > 0 THEN args[1]
    ELSE IF KwGet(kw) # PyNone THEN kw
    ELSE PyStr("UNKNOWN")

Actor(args, kw) ==
    IF Len(args) > 0 /\ KwGet(kw) = PyNone THEN args[1]
    ELSE IF KwGet(kw) # PyNone THEN kw
    ELSE PyStr("UNKNOWN")

\* kwargs as passed on to the wrapped method
KwPassed(args, kw) ==
    IF Len(args) > 0 /\ KwGet(kw) = PyNone THEN kw
    ELSE IF KwGet(kw) # PyNone THEN kw
    ELSE PyStr("UNKNOWN")

Entry(user, t) == Format(user) \o ": " \o t

\* the entry is inserted at the front of the history
KeepHistoryInsertFirst(t, hist, args, kw) ==
    LET entry == Entry(Actor(args, kw), t)
        eff == Effect(t, args, KwPassed(args, kw))
    IN  [err |-> eff.err,
         history |-> <<entry>> \o hist,
         steps |-> << <<"history", entry>> >> \o eff.steps]

keep_history(t, hist, args, kw) ==
    LET entry == Entry(Actor(args, kw), t)
        eff == Effect(t, args, KwPassed(args, kw))
    IN  [err |-> eff.err,
         history |-> Append(hist, entry),
         steps |-> << <<"history", entry>> >> \o eff.steps]

(***************************************************************************)
(* A decorated transition method: the guard combinator around              *)
(* keep_history around the body.                                           *)
(***************************************************************************)
Guard(t, d, cl, doc) ==
    CASE d.combinator = "check_all" -> check_all(d.checks, cl, doc)
      [] d.combinator = "check_any" -> check_any(t, d.checks, cl, doc)
      [] OTHER -> [err |-> NoError, steps |-> <<>>]

\* the decorators stacked the other way round: keep_history around the guard
ImplementationHistoryOutermost(t, d, cl, doc, hist, args, kw) ==
    LET g == Guard(t, d, cl, doc)
        k == keep_history(t, hist, args, kw)
    IN  IF g.err # NoError
        THEN [err |-> g.err, history |-> k.history, steps |-> << k.steps[1] >> \o g.steps]
        ELSE [err |-> k.err, history |-> k.history, steps |-> << k.steps[1] >> \o g.steps \o Tail(k.steps)]

Implementation(t, d, cl, doc, hist, args, kw) ==
    LET g == Guard(t, d, cl, doc)
        k == keep_history(t, hist, args, kw)
    IN  IF g.err # NoError
        THEN [err |-> g.err, history |-> hist, steps |-> g.steps]
        ELSE [err |-> k.err, history |-> k.history, steps |-> g.steps \o k.steps]

(***************************************************************************)
(* Inputs of the exploration.                                              *)
(***************************************************************************)
Users == {"Larry"}
DoctestUsers == {"Larry", "Curly", "Moe"}
Titles == {"Report1", "Report_1"}
Contents == {PyNone, PyStr(""), PyStr("foo")}
DoctestContents == Contents \cup {PyStr("foo bar")}
KeywordLists == {<<>>, <<"bar">>}

SeqsUpTo(S, n) == UNION {[1..k -> S] : k \in 0..n}

ArgsOver(users) == {<<>>} \cup {<<PyStr(u)>> : u \in users}
KwOver(users) == {Absent, PyNone} \cup {PyStr(u) : u \in users}

(***************************************************************************)
(* The module doctest: the operations of the session after the report is   *)
(* created, in order.  pos counts how many of them the run has performed,  *)
(* and is -1 once the run has departed from the session.                   *)
(***************************************************************************)
CallOp(t, args, kw) == [op |-> "call", name |-> t, args |-> args, kw |-> kw]
SetOp(attr, v) == [op |-> "set", name |-> attr, args |-> <<v>>, kw |-> Absent]

Script ==
    << CallOp("prepare", <<PyStr("Larry")>>, Absent),
       CallOp("finish", <<PyStr("Curly")>>, Absent),
       SetOp("content", PyStr("foo")),
       CallOp("finish", <<PyStr("Curly")>>, Absent),
       SetOp("title", PyStr("Report_1")),
       CallOp("finish", <<PyStr("Curly")>>, Absent),
       CallOp("submit", <<PyStr("Curly")>>, Absent),
       CallOp("reject", <<PyStr("Moe")>>, Absent),
       SetOp("content", PyStr("foo bar")),
       CallOp("finish", <<PyStr("Larry")>>, Absent),
       CallOp("submit", <<PyStr("Larry")>>, Absent),
       CallOp("finish", <<PyStr("Moe")>>, Absent),
       CallOp("approve", <<PyStr("Moe")>>, Absent) >>

\* rep = Report(title='Report1', keywords=['bar'], checks=checks_list)
IsDoctestReport(t, c, k, cl) ==
    t = "Report1" /\ c = PyNone /\ k = <<"bar">> /\ cl = CheckList(CheckNames)

Advance(p, op) ==
    IF p >= 0 /\ p < Len(Script) /\ Script[p + 1] = op THEN p + 1 ELSE -1

(***************************************************************************)
(* What the last operation was and did: its exception (or NoError), the    *)
(* steps it took, and the state and history it started from.               *)
(***************************************************************************)
Done(op, err, steps) ==
    [op |-> op.op, name |-> op.name, args |-> op.args, kw |-> op.kw,
     err |-> err, steps |-> steps, state0 |-> state, history0 |-> history]

(***************************************************************************)
(* Report.__init__ on a class whose state field starts at initial_state.   *)
(***************************************************************************)
InitReport(decos, checklists) ==
    /\ title \in Titles
    /\ content \in Contents
    /\ keywords \in KeywordLists
    /\ checks \in checklists
    /\ state = initial_state
    /\ history = <<>>
    /\ decorators \in decos
    /\ last = [op |-> "init", name |-> "__init__", args |-> <<>>, kw |-> Absent,
               err |-> NoError, steps |-> <<>>, state0 |-> initial_state, history0 |-> <<>>]
    /\ pos = IF IsDoctestReport(title, content, keywords, checks) THEN 0 ELSE -1

\* no workflow has been built, there is no second report and no caller is
\* inside a call
NotCalled == [op |-> "none"]
NoSiblings == <<>>
NoThreads == <<>>

Init ==
    /\ InitReport({ReportDecorators}, {CheckList(CheckNames)})
    /\ factory = NotCalled /\ siblings = NoSiblings /\ threads = NoThreads

(***************************************************************************)
(* Calling transition t on the report: xworkflows checks that t is         *)
(* available from the current state, runs the before-transition hook, the  *)
(* decorated method, sets the state to the target, and runs the            *)
(* after-transition and on-enter-state hooks.                              *)
(***************************************************************************)
IsAvailable(t, s) == s \in Source(t)

BeforeHooks == << <<"hook", "notify_transition_start">> >>
AfterHooks == << <<"hook", "notify_transition_end">>, <<"hook", "announce_state">> >>

Call(t, args, kw) ==
    LET op == CallOp(t, args, kw)
        r == Implementation(t, decorators[t], checks, Doc, history, args, kw)
    IN  /\ pos' = Advance(pos, op)
        /\ UNCHANGED <<title, content, keywords, checks, decorators>>
        /\ UNCHANGED <<factory, siblings, threads>>
        /\ IF ~IsAvailable(t, state)
           THEN /\ last' = Done(op, InvalidTransitionError(t, state), <<>>)
                /\ UNCHANGED <<state, history>>
           ELSE IF r.err # NoError
           THEN /\ last' = Done(op, r.err, BeforeHooks \o r.steps)
                /\ history' = r.history
                /\ UNCHANGED state
           ELSE /\ last' = Done(op, NoError,
                                BeforeHooks \o r.steps \o << <<"state", Target(t)>> >> \o AfterHooks)
                /\ history' = r.history
                /\ state' = Target(t)

(***************************************************************************)
(* Plain attribute assignments: rep.title = v, rep.content = v,            *)
(* rep.keywords = v.                                                       *)
(***************************************************************************)
SetTitle(v) ==
    /\ title' = v
    /\ last' = Done(SetOp("title", PyStr(v)), NoError, <<>>)
    /\ pos' = Advance(pos, SetOp("title", PyStr(v)))
    /\ UNCHANGED <<content, keywords, checks, state, history, decorators>>
    /\ UNCHANGED <<factory, siblings, threads>>

SetContent(v) ==
    /\ content' = v
    /\ last' = Done(SetOp("content", v), NoError, <<>>)
    /\ pos' = Advance(pos, SetOp("content", v))
    /\ UNCHANGED <<title, keywords, checks, state, history, decorators>>
    /\ UNCHANGED <<factory, siblings, threads>>

SetKeywords(v) ==
    /\ keywords' = v
    /\ last' = Done(SetOp("keywords", v), NoError, <<>>)
    /\ pos' = Advance(pos, SetOp("keywords", v))
    /\ UNCHANGED <<title, content, checks, state, history, decorators>>
    /\ UNCHANGED <<factory, siblings, threads>>

CallAny(users) ==
    \E t \in TransitionNames, args \in ArgsOver(users), kw \in KwOver(users) : Call(t, args, kw)

SetAny(contents) ==
    \/ \E v \in Titles : SetTitle(v)
    \/ \E v \in contents : SetContent(v)
    \/ \E v \in KeywordLists : SetKeywords(v)

(***************************************************************************)
(* Spec: a report built with the three checks of the doctest, any calls    *)
(* and assignments, until the history holds MaxHistory entries.            *)
(***************************************************************************)
Next ==
    \/ CallAny(Users) /\ Len(history') <= MaxHistory
    \/ SetAny(Contents)

Spec == Init /\ [][Next]_vars

(***************************************************************************)
(* SpecDoctest: the doctest's report, following the session and every      *)
(* single departure from it.                                               *)
(***************************************************************************)
InitDoctest == Init /\ pos = 0

NextDoctest ==
    \/ pos >= 0 /\ CallAny(DoctestUsers)
    \/ pos >= 0 /\ SetAny(DoctestContents)

SpecDoctest == InitDoctest /\ [][NextDoctest]_vars

(***************************************************************************)
(* SpecChecks: a report built with any sub-list of the checks, whose       *)
(* prepare method is guarded by check_all or check_any over any list of at *)
(* most MaxChecks check names; prepare and finish are called and           *)
(* attributes assigned.                                                    *)
(***************************************************************************)
DecoratorChoices ==
    {[ReportDecorators EXCEPT !["prepare"] = [combinator |-> c, checks |-> names]] :
        c \in {"check_all", "check_any"}, names \in SeqsUpTo(CheckNames, MaxChecks)}

InitChecks ==
    /\ InitReport(DecoratorChoices, {CheckList(names) : names \in SUBSET CheckNames})
    /\ factory = NotCalled /\ siblings = NoSiblings /\ threads = NoThreads

NextChecks ==
    \/ /\ \E t \in {"prepare", "finish"}, args \in ArgsOver(Users) : Call(t, args, Absent)
       /\ Len(history') <= MaxHistory
    \/ SetAny(Contents)

SpecChecks == InitChecks /\ [][NextChecks]_vars

(***************************************************************************)
(* SpecBare: a report built with no content (None or '') and no keywords,  *)
(* on which transitions are called and the title is assigned, while        *)
(* content and keywords are left as they are.                              *)
(***************************************************************************)
InitBare == Init /\ content \in {PyNone, PyStr("")} /\ keywords = <<>>

NextBare ==
    \/ CallAny(Users)
    \/ \E v \in Titles : SetTitle(v)

SpecBare == InitBare /\ [][NextBare]_vars

(***************************************************************************)
(* Workflow specifications as load_json_workflows finds them in the JSON   *)
(* file: an object mapping each workflow name to its states, transitions   *)
(* and initial_state.  The specifications explored declare the states      *)
(* draft and ready and one transition, and may name the undeclared state   *)
(* ghost; a malformed one lacks initial_state.  State and transition names *)
(* are not repeated within a specification.                                *)
(***************************************************************************)
MaxWorkflows == 2

StateDefs == << [name |-> "draft", title |-> "Draft"], [name |-> "ready", title |-> "Ready"] >>

TransitionDef(sources, target) == [name |-> "prepare", sources |-> sources, target |-> target]

WorkflowSpecs ==
    {[states |-> StateDefs, transitions |-> <<TransitionDef(sources, target)>>,
      initial_state |-> ini] :
        sources \in {<<"draft">>, <<"ghost">>, <<"draft", "ghost">>},
        target \in {"ready", "ghost"},
        ini \in {"draft", "ghost"}}

MalformedSpecs ==
    {[states |-> StateDefs, transitions |-> <<TransitionDef(<<"draft">>, "ready")>>]}

WorkflowName(i) == "Workflow" \o ToString(i)

JsonFiles ==
    {[i \in DOMAIN specs |-> [name |-> WorkflowName(i), spec |-> specs[i]]] :
        specs \in SeqsUpTo(WorkflowSpecs \cup MalformedSpecs, MaxWorkflows)}

(***************************************************************************)
(* type(name, (Workflow,), attrs): xworkflows' workflow metaclass builds   *)
(* the definition and refuses transitions or an initial state that name a  *)
(* state which is not declared.                                            *)
(***************************************************************************)
WorkflowDefinitionError(msg) == [type |-> "WorkflowDefinitionError", msg |-> msg]

NoValue == [n \in {} |-> NotCalled]

WorkflowMeta(name, attrs) ==
    LET declared == {attrs.states[i][1] : i \in DOMAIN attrs.states}
        named == UNION {{attrs.transitions[k][2][j] : j \in DOMAIN attrs.transitions[k][2]}
                            \cup {attrs.transitions[k][3]} : k \in DOMAIN attrs.transitions}
        undeclared == (named \cup {attrs.initial_state}) \ declared
    IN  IF undeclared # {}
        THEN [err |-> WorkflowDefinitionError(CHOOSE n \in undeclared : TRUE), value |-> NoValue]
        ELSE [err |-> NoError, value |-> [name |-> name] @@ attrs]

\* the first declared state is taken as the initial state
MakeWorkflowStartsAtFirstState(name, states, transitions, initial, log_transitions) ==
    WorkflowMeta(name,
        [states |-> states, transitions |-> transitions, initial_state |-> states[1][1],
         log_transition |-> IF log_transitions THEN "default" ELSE "dont_log_transition"])

make_workflow(name, states, transitions, initial, log_transitions) ==
    WorkflowMeta(name,
        [states |-> states, transitions |-> transitions, initial_state |-> initial,
         log_transition |-> IF log_transitions THEN "default" ELSE "dont_log_transition"])

(***************************************************************************)
(* load_json_workflows: the loop over the workflows of the file, from the  *)
(* i-th on; workflows is the dictionary built so far.  An exception leaves *)
(* the function at once; the dictionary is returned after the loop.        *)
(***************************************************************************)
StatesOf(spec) == [k \in DOMAIN spec.states |-> <<spec.states[k].name, spec.states[k].title>>]

TransitionsOf(spec) ==
    [k \in DOMAIN spec.transitions |->
        <<spec.transitions[k].name, spec.transitions[k].sources, spec.transitions[k].target>>]

RECURSIVE LoadFrom(_, _, _)
LoadFrom(wf_specs, i, workflows) ==
    IF i > Len(wf_specs) THEN [err |-> NoError, workflows |-> workflows]
    ELSE LET wf == wf_specs[i].name
             spec == wf_specs[i].spec
             missing == {"states", "transitions", "initial_state"} \ DOMAIN spec
         IN  IF missing # {}
             THEN [err |-> KeyError(CHOOSE f \in missing : TRUE), workflows |-> workflows]
             ELSE LET r == make_workflow(wf, StatesOf(spec), TransitionsOf(spec),
                                         spec.initial_state, FALSE)
                  IN  IF r.err # NoError THEN [err |-> r.err, workflows |-> workflows]
                      ELSE LoadFrom(wf_specs, i + 1, workflows @@ (wf :> r.value))

load_json_workflows(wf_specs) ==
    LET r == LoadFrom(wf_specs, 1, NoValue)
    IN  IF r.err # NoError THEN [err |-> r.err, value |-> NoValue]
        ELSE [err |-> NoError, value |-> r.workflows]

(***************************************************************************)
(* SpecFactory: make_workflow is called on the arguments of any of the     *)
(* specifications, and load_json_workflows on any file of at most          *)
(* MaxWorkflows workflows.                                                 *)
(***************************************************************************)
Returned(op, input, r) ==
    [op |-> op, input |-> input, err |-> r.err, returned |-> r.err = NoError, value |-> r.value]

MakeWorkflow(name, spec) ==
    /\ factory' = Returned("make_workflow", [name |-> name, spec |-> spec],
                           make_workflow(name, StatesOf(spec), TransitionsOf(spec),
                                         spec.initial_state, FALSE))
    /\ UNCHANGED <<title, content, keywords, checks, state, history, decorators, last, pos>>
    /\ UNCHANGED <<siblings, threads>>

LoadJsonWorkflows(wf_specs) ==
    /\ factory' = Returned("load_json_workflows", wf_specs, load_json_workflows(wf_specs))
    /\ UNCHANGED <<title, content, keywords, checks, state, history, decorators, last, pos>>
    /\ UNCHANGED <<siblings, threads>>

InitFactory == InitDoctest

NextFactory ==
    \/ \E spec \in WorkflowSpecs : MakeWorkflow(WorkflowName(1), spec)
    \/ \E wf_specs \in JsonFiles : LoadJsonWorkflows(wf_specs)

SpecFactory == InitFactory /\ [][NextFactory]_vars

(***************************************************************************)
(* Two reports of the same class.  Each is a record of its attributes; the *)
(* history attribute refers to a list object, and lists holds the contents *)
(* of the list objects.  Report.__init__ binds history to a new list.      *)
(***************************************************************************)
MaxSiblingHistory == 2

NoReports == [reports |-> <<>>, lists |-> <<>>]

\* the history list is a default shared by all instances
ReportInitSharesHistory(heap, t, c, k) ==
    [reports |-> Append(heap.reports,
                        [title |-> t, content |-> c, keywords |-> k,
                         state |-> initial_state, history |-> 1]),
     lists |-> IF heap.lists = <<>> THEN << <<>> >> ELSE heap.lists]

ReportInit(heap, t, c, k) ==
    [reports |-> Append(heap.reports,
                        [title |-> t, content |-> c, keywords |-> k,
                         state |-> initial_state, history |-> Len(heap.lists) + 1]),
     lists |-> Append(heap.lists, <<>>)]

\* Report(title='Report1', keywords=['bar']) and Report(title='Report_1', content='foo')
ReportArgs ==
    {[title |-> "Report1", content |-> PyNone, keywords |-> <<"bar">>],
     [title |-> "Report_1", content |-> PyStr("foo"), keywords |-> <<>>]}

\* transition t called on the r-th report
CallOn(r, t, args, kw) ==
    LET this == siblings.reports[r]
        hist == siblings.lists[this.history]
        doc == [title |-> this.title, content |-> this.content, keywords |-> this.keywords]
        res == Implementation(t, ReportDecorators[t], CheckList(CheckNames), doc, hist, args, kw)
        err == IF ~IsAvailable(t, this.state) THEN InvalidTransitionError(t, this.state)
               ELSE res.err
    IN  /\ siblings' =
               [reports |-> IF err = NoError
                            THEN [siblings.reports EXCEPT ![r].state = Target(t)]
                            ELSE siblings.reports,
                lists |-> IF IsAvailable(t, this.state)
                          THEN [siblings.lists EXCEPT ![this.history] = res.history]
                          ELSE siblings.lists,
                last |-> [report |-> r, name |-> t, err |-> err,
                          reports0 |-> siblings.reports, lists0 |-> siblings.lists]]
        /\ Len(siblings'.lists[this.history]) <= MaxSiblingHistory
        /\ UNCHANGED <<title, content, keywords, checks, state, history, decorators, last, pos>>
        /\ UNCHANGED <<factory, threads>>

(***************************************************************************)
(* SpecSiblings: two reports are created and transitions are called on     *)
(* either, with the user given positionally, or positionally and by name,  *)
(* until a history holds MaxSiblingHistory entries.                         *)
(***************************************************************************)
InitSiblings ==
    /\ InitReport({ReportDecorators}, {CheckList(CheckNames)}) /\ pos = 0
    /\ factory = NotCalled /\ threads = NoThreads
    /\ \E a \in ReportArgs, b \in ReportArgs :
            LET heap == ReportInit(ReportInit(NoReports, a.title, a.content, a.keywords),
                                   b.title, b.content, b.keywords)
            IN  siblings = [reports |-> heap.reports, lists |-> heap.lists,
                            last |-> [report |-> 0, name |-> "__init__", err |-> NoError,
                                      reports0 |-> heap.reports, lists0 |-> heap.lists]]

NextSiblings ==
    \E r \in DOMAIN siblings.reports, t \in TransitionNames,
       args \in ArgsOver(Users), kw \in {Absent} \cup {PyStr(u) : u \in Users} :
        CallOn(r, t, args, kw)

SpecSiblings == InitSiblings /\ [][NextSiblings]_vars

(***************************************************************************)
(* Callers in different threads of the host program calling transitions on *)
(* the same report.  Nothing in Report, the decorators or the workflow     *)
(* takes a lock, so the calls advance step by step in any interleaving:    *)
(* the availability check, the guards, the append to the history, the      *)
(* method body, the assignment of the state.  from is the state the        *)
(* assignment replaced.                                                    *)
(***************************************************************************)
MaxThreadHistory == 3

ThreadIds == {"T1", "T2"}

Idle == [pc |-> "idle", name |-> "", args |-> <<>>, kw |-> Absent, err |-> NoError, from |-> ""]

InFlight == {th \in ThreadIds : threads[th].pc \in {"check", "guard", "append"}}

ReportUnchanged == UNCHANGED <<title, content, keywords, checks, decorators, last, pos>>

Begin(th, t, args, kw) ==
    /\ threads[th].pc \in {"idle", "done"}
    /\ Len(history) + Cardinality(InFlight) < MaxThreadHistory
    /\ threads' = [threads EXCEPT ![th] = [Idle EXCEPT !.pc = "check", !.name = t,
                                                       !.args = args, !.kw = kw]]
    /\ ReportUnchanged
    /\ UNCHANGED <<state, history, factory, siblings>>

CheckAvailable(th) ==
    /\ threads[th].pc = "check"
    /\ threads' = [threads EXCEPT ![th] =
            IF IsAvailable(threads[th].name, state)
            THEN [@ EXCEPT !.pc = "guard"]
            ELSE [@ EXCEPT !.pc = "done", !.err = InvalidTransitionError(threads[th].name, state)]]
    /\ ReportUnchanged
    /\ UNCHANGED <<state, history, factory, siblings>>

EvalGuards(th) ==
    LET g == Guard(threads[th].name, decorators[threads[th].name], checks, Doc)
    IN  /\ threads[th].pc = "guard"
        /\ threads' = [threads EXCEPT ![th] =
                IF g.err = NoError THEN [@ EXCEPT !.pc = "append"]
                ELSE [@ EXCEPT !.pc = "done", !.err = g.err]]
        /\ ReportUnchanged
        /\ UNCHANGED <<state, history, factory, siblings>>

AppendHistory(th) ==
    /\ threads[th].pc = "append"
    /\ history' = keep_history(threads[th].name, history, threads[th].args, threads[th].kw).history
    /\ threads' = [threads EXCEPT ![th].pc = "effect"]
    /\ ReportUnchanged
    /\ UNCHANGED <<state, factory, siblings>>

RunEffect(th) ==
    LET eff == Effect(threads[th].name, threads[th].args,
                      KwPassed(threads[th].args, threads[th].kw))
    IN  /\ threads[th].pc = "effect"
        /\ threads' = [threads EXCEPT ![th] =
                IF eff.err = NoError THEN [@ EXCEPT !.pc = "set"]
                ELSE [@ EXCEPT !.pc = "done", !.err = eff.err]]
        /\ ReportUnchanged
        /\ UNCHANGED <<state, history, factory, siblings>>

SetState(th) ==
    /\ threads[th].pc = "set"
    /\ state' = Target(threads[th].name)
    /\ threads' = [threads EXCEPT ![th].pc = "done", ![th].from = state]
    /\ ReportUnchanged
    /\ UNCHANGED <<history, factory, siblings>>

(***************************************************************************)
(* SpecThreads: two threads call transitions, each with the user given     *)
(* positionally, on a report whose guards pass, until the history holds    *)
(* MaxThreadHistory entries.                                               *)
(***************************************************************************)
InitThreads ==
    /\ InitReport({ReportDecorators}, {CheckList(CheckNames)})
    /\ title = "Report_1" /\ content = PyStr("foo") /\ keywords = <<"bar">>
    /\ factory = NotCalled /\ siblings = NoSiblings
    /\ threads = [th \in ThreadIds |-> Idle]

NextThreads ==
    \E th \in ThreadIds :
        \/ \E t \in TransitionNames, u \in Users : Begin(th, t, <<PyStr(u)>>, Absent)
        \/ CheckAvailable(th)
        \/ EvalGuards(th)
        \/ AppendHistory(th)
        \/ RunEffect(th)
        \/ SetState(th)

SpecThreads == InitThreads /\ [][NextThreads]_vars

(***************************************************************************)
(* Helpers of the properties.                                              *)
(***************************************************************************)
IsCall == last.op = "call"
Unchanged == state = last.state0 /\ history = last.history0
StepsOfKind(kind) == SelectSeq(last.steps, LAMBDA e : e[1] = kind)

(***************************************************************************)
(* C1: a transition invoked from a state that is not among its sources     *)
(* fails with InvalidTransitionError naming the transition and the state,  *)
(* and leaves the state and the history as they were; in particular finish *)
(* from submitted fails so, as in the doctest.                             *)
(***************************************************************************)
C1_InvalidTransitionRejected ==
    /\ (IsCall /\ last.state0 \notin Source(last.name)) =>
            /\ last.err = InvalidTransitionError(last.name, last.state0)
            /\ Unchanged
    /\ (IsCall /\ last.name = "finish" /\ last.state0 = "submitted") =>
            /\ last.err = [type |-> "InvalidTransitionError",
                           msg  |-> "Transition 'finish' isn't available from state 'submitted'."]
            /\ Unchanged

C1_Witness ==
    /\ IsCall /\ last.name = "finish" /\ last.state0 = "submitted"
    /\ last.err.type = "InvalidTransitionError"
    /\ Len(history) > 0

(***************************************************************************)
(* C2: a transition call that succeeds makes the history one entry longer; *)
(* the earlier entries are kept in place and the new, last entry is        *)
(* "<actor>: <transition name>".                                           *)
(***************************************************************************)
ActorNames == Users \cup DoctestUsers \cup {"UNKNOWN"}

C2_SuccessAppendsOneEntry ==
    (IsCall /\ last.err = NoError) =>
        /\ Len(history) = Len(last.history0) + 1
        /\ SubSeq(history, 1, Len(last.history0)) = last.history0
        /\ \E a \in ActorNames : history[Len(history)] = a \o ": " \o last.name

C2_Witness ==
    /\ IsCall /\ last.err = NoError
    /\ Len(last.history0) >= 2
    /\ history[Len(history)] = "Larry: submit"

(***************************************************************************)
(* C3: when the guards of prepare (any of has_content, has_keywords) or of *)
(* finish (all of has_content, title_size) reject a call, nothing is       *)
(* appended to the history and the state stays; the history gains an entry *)
(* only in a call whose guards passed, and then exactly one.               *)
(***************************************************************************)
ContentIsSet == content # PyNone /\ content # PyStr("")

ReportGuardsPass(t) ==
    CASE t = "prepare" -> ContentIsSet \/ keywords # <<>>
      [] t = "finish"  -> ContentIsSet /\ Len(title) >= 8
      [] OTHER         -> TRUE

C7_FailedCallChangesNothing ==
    (IsCall /\ last.err # NoError) => Unchanged

(***************************************************************************)
(* C9: a new report is in the initial state draft with an empty history;   *)
(* the state is always one of the workflow's states, and it changes only   *)
(* in a transition call that succeeds, to the target of that transition.   *)
(***************************************************************************)
C9_StateFollowsTransitions ==
    /\ state \in States
    /\ last.op = "init" => state = "draft" /\ history = <<>>
    /\ state # last.state0 =>
            /\ IsCall /\ last.err = NoError
            /\ last.state0 \in Source(last.name)
            /\ state = Target(last.name)
    /\ (IsCall /\ last.err = NoError) => state = Target(last.name)

C9_Witness ==
    /\ IsCall /\ last.err = NoError
    /\ last.state0 = "submitted" /\ state = "approved"

(***************************************************************************)
(* C6: the doctest session.  prepare('Larry') moves the new report to      *)
(* ready; finish('Curly') fails with 'Content is empty', then, with        *)
(* content set, with 'Title too short (at least 8 chars)', then, with the  *)
(* title 'Report_1', succeeds: complete, history ['Larry: prepare',        *)
(* 'Curly: finish'].  submit, reject, finish, submit follow; finish from   *)
(* submitted is refused; approve ends in approved with the seven entries.  *)
(***************************************************************************)
DoctestHistory ==
    <<"Larry: prepare", "Curly: finish", "Curly: submit", "Moe: reject",
      "Larry: finish", "Larry: submit", "Moe: approve">>

C6_DoctestSession ==
    /\ pos = 0 => state = "draft" /\ history = <<>>
    /\ pos = 1 => last.err = NoError /\ state = "ready"
    /\ pos = 2 => last.err = Exception("Content is empty") /\ state = "ready"
    /\ pos = 4 => last.err = Exception("Title too short (at least 8 chars)") /\ state = "ready"
    /\ pos = 6 => /\ last.err = NoError /\ state = "complete"
                  /\ history = <<"Larry: prepare", "Curly: finish">>
    /\ pos = 7 => last.err = NoError /\ state = "submitted"
    /\ pos = 8 => last.err = NoError /\ state = "ready"
    /\ pos = 10 => last.err = NoError /\ state = "complete"
    /\ pos = 11 => last.err = NoError /\ state = "submitted"
    /\ pos = 12 => /\ last.err.type = "InvalidTransitionError"
                   /\ state = "submitted"
                   /\ history = SubSeq(DoctestHistory, 1, 6)
    /\ pos = 13 => last.err = NoError /\ state = "approved" /\ history = DoctestHistory

C6_Witness ==
    pos = Len(Script) /\ state = "approved" /\ Len(history) = 7

(***************************************************************************)
(* C8: the actor of a history entry is the named user argument when one is *)
(* given and is not None, else the first positional argument, else         *)
(* 'UNKNOWN'; 'UNKNOWN' is recorded exactly when the call gives neither,   *)
(* and then the method is still called, with user='UNKNOWN', and the       *)
(* transition succeeds.                                                    *)
(***************************************************************************)
NamedGiven == last.kw # Absent /\ last.kw # PyNone
GivesNeither == last.args = <<>> /\ ~NamedGiven

ExpectedActor ==
    IF NamedGiven THEN last.kw[2]
    ELSE IF last.args # <<>> THEN last.args[1][2]
    ELSE "UNKNOWN"

C8_ActorOfEntry ==
    /\ (IsCall /\ history # last.history0) =>
            /\ history = Append(last.history0, ExpectedActor \o ": " \o last.name)
            /\ (history[Len(history)] = "UNKNOWN: " \o last.name) <=> GivesNeither
    /\ (IsCall /\ GivesNeither /\ last.state0 \in Source(last.name)
            /\ ReportGuardsPass(last.name)) =>
            /\ last.err = NoError
            /\ StepsOfKind("effect") = << <<"effect", last.name, "UNKNOWN">> >>
            /\ history = Append(last.history0, "UNKNOWN: " \o last.name)
            /\ state = Target(last.name)

C8_Witness ==
    /\ IsCall /\ GivesNeither /\ last.err = NoError
    /\ history = <<"Larry: prepare", "Curly: finish", "UNKNOWN: submit">>

(***************************************************************************)
(* Helpers for the combinators: the last operation called, from one of its *)
(* source states, a transition guarded by Combinator over the list Names.  *)
(***************************************************************************)
Combinator == decorators[last.name].combinator
Names == decorators[last.name].checks
GuardedCall == IsCall /\ last.state0 \in Source(last.name)

Known(n) == n \in DOMAIN checks
AllKnown == \A i \in DOMAIN Names : Known(Names[i])

Passes(n) ==
    CASE n = "has_content"  -> ContentIsSet
      [] n = "has_keywords" -> keywords # <<>>
      [] n = "title_size"   -> Len(title) >= 8

GuardMessage(n) ==
    CASE n = "has_content"  -> "Content is empty"
      [] n = "has_keywords" -> "No keywords defined"
      [] n = "title_size"   -> "Title too short (at least 8 chars)"

Min(S) == CHOOSE x \in S : \A y \in S : x <= y
Evaluated == [i \in DOMAIN StepsOfKind("verify") |-> StepsOfKind("verify")[i][2]]
EffectRuns == Len(StepsOfKind("effect"))

(***************************************************************************)
(* C4: check_all evaluates the named checks in the given order and stops   *)
(* at the first that is false: the call fails with that check's message,   *)
(* no later check is evaluated and the method does not run; the method     *)
(* runs only when every check passed.                                      *)
(***************************************************************************)
C4_CheckAllShortCircuits ==
    (GuardedCall /\ Combinator = "check_all" /\ AllKnown) =>
        LET failing == {i \in DOMAIN Names : ~Passes(Names[i])}
        IN  IF failing = {}
            THEN /\ last.err = NoError
                 /\ Evaluated = Names
                 /\ EffectRuns = 1
            ELSE /\ last.err = Exception(GuardMessage(Names[Min(failing)]))
                 /\ Evaluated = SubSeq(Names, 1, Min(failing))
                 /\ EffectRuns = 0
                 /\ Unchanged

C4_Witness ==
    /\ GuardedCall /\ Combinator = "check_all" /\ AllKnown
    /\ Len(Names) = 2 /\ ~Passes(Names[1]) /\ Passes(Names[2])
    /\ last.err = Exception(GuardMessage(Names[1]))

(***************************************************************************)
(* C5: check_any lets the call through exactly when at least one named     *)
(* check is true, and then the method runs once; it fails, with 'All       *)
(* checks failed for <transition>', only when every named check is false.  *)
(***************************************************************************)
C5_CheckAnyNeedsOnePass ==
    (GuardedCall /\ Combinator = "check_any" /\ AllKnown) =>
        /\ last.err = NoError <=> \E i \in DOMAIN Names : Passes(Names[i])
        /\ last.err = NoError =>
                /\ EffectRuns = 1
                /\ Len(history) = Len(last.history0) + 1
        /\ last.err # NoError =>
                /\ last.err = Exception("All checks failed for " \o last.name)
                /\ \A i \in DOMAIN Names : ~Passes(Names[i])
                /\ EffectRuns = 0
                /\ Unchanged

C5_Witness ==
    /\ GuardedCall /\ Combinator = "check_any" /\ AllKnown
    /\ Len(Names) = 2 /\ ~Passes(Names[1]) /\ Passes(Names[2])
    /\ last.err = NoError /\ state = "ready" /\ EffectRuns = 1

(***************************************************************************)
(* C10 as claimed, for Report's own prepare and finish: a call whose       *)
(* combinator names a check that is not in the report's CheckList fails    *)
(* with the lookup error, for check_all and check_any alike, and leaves    *)
(* state and history unchanged.                                            *)
(***************************************************************************)
SomeUnknown == \E i \in DOMAIN Names : ~Known(Names[i])
FirstUnknown == Min({i \in DOMAIN Names : ~Known(Names[i])})

C10_UnknownCheckRaisesLookupError ==
    (GuardedCall /\ decorators = ReportDecorators /\ SomeUnknown) =>
        /\ last.err = [type |-> "KeyError", msg |-> Names[FirstUnknown]]
        /\ Unchanged

(***************************************************************************)
(* C10 as amended: such a call never succeeds and leaves state and history *)
(* unchanged.  It fails with the lookup error (a KeyError) for the first   *)
(* absent name, except that check_all fails with the message of a check    *)
(* that comes earlier in the list and is false, never reaching the absent  *)
(* name.                                                                   *)
(***************************************************************************)
C10_UnknownCheckNeverPasses ==
    (GuardedCall /\ SomeUnknown) =>
        LET earlier == {i \in DOMAIN Names :
                           i < FirstUnknown /\ Known(Names[i]) /\ ~Passes(Names[i])}
        IN  /\ last.err # NoError
            /\ Unchanged
            /\ EffectRuns = 0
            /\ IF Combinator = "check_all" /\ earlier # {}
               THEN last.err = Exception(GuardMessage(Names[Min(earlier)]))
               ELSE last.err = [type |-> "KeyError", msg |-> Names[FirstUnknown]]

C10_Witness ==
    /\ GuardedCall /\ SomeUnknown /\ Combinator = "check_all"
    /\ Len(Names) = 2 /\ FirstUnknown = 2
    /\ last.err = Exception(GuardMessage(Names[1]))

(***************************************************************************)
(* C12: within a call that succeeds the order is: the guards pass, the     *)
(* method body completes, the state is set to the target, the history      *)
(* entry is appended, the after-transition hooks run; the entry is never   *)
(* appended before the body has completed or before the state has changed. *)
(***************************************************************************)
FirstStep(kind) == Min({i \in DOMAIN last.steps : last.steps[i][1] = kind})
LastStep(kind) == -Min({-i : i \in {j \in DOMAIN last.steps : last.steps[j][1] = kind}})
AfterHookAt == Min({i \in DOMAIN last.steps : last.steps[i] = <<"hook", "notify_transition_end">>})

C12_HistoryAppendedLast ==
    (IsCall /\ last.err = NoError) =>
        /\ StepsOfKind("verify") # <<>> => LastStep("verify") < FirstStep("effect")
        /\ FirstStep("effect") < FirstStep("state")
        /\ FirstStep("state") < FirstStep("history")
        /\ FirstStep("history") < AfterHookAt

(***************************************************************************)
(* C13: the legality check comes first: a call from a state that is not a  *)
(* source of the transition raises InvalidTransitionError before any hook  *)
(* runs and before any guard is evaluated, whether the guards would pass   *)
(* or not; so every transition but prepare called on a draft report.       *)
(***************************************************************************)
C13_LegalityCheckedFirst ==
    /\ (IsCall /\ last.state0 \notin Source(last.name)) =>
            /\ last.err.type = "InvalidTransitionError"
            /\ last.steps = <<>>
    /\ (IsCall /\ last.err.type = "InvalidTransitionError") => last.steps = <<>>
    /\ (IsCall /\ last.state0 = "draft" /\ last.name # "prepare") =>
            /\ last.err.type = "InvalidTransitionError"
            /\ last.steps = <<>>

C13_Witness ==
    /\ IsCall /\ last.name = "finish" /\ last.state0 = "submitted"
    /\ ~ReportGuardsPass("finish")
    /\ last.err.type = "InvalidTransitionError" /\ last.steps = <<>>

(***************************************************************************)
(* C14: check_any evaluates every named check on every call, once each and *)
(* in the order given, also after an earlier one has passed; the method    *)
(* runs, or the call is rejected, only after all of them were evaluated.   *)
(***************************************************************************)
C14_CheckAnyEvaluatesAll ==
    (GuardedCall /\ Combinator = "check_any" /\ AllKnown) =>
        /\ Evaluated = Names
        /\ \A i \in DOMAIN last.steps :
                last.steps[i][1] \in {"history", "effect"} => i > 1 + Len(Names)

C14_Witness ==
    /\ GuardedCall /\ Combinator = "check_any" /\ AllKnown
    /\ Len(Names) = 2 /\ Passes(Names[1]) /\ ~Passes(Names[2])
    /\ Evaluated = Names /\ last.err = NoError /\ EffectRuns = 1

(***************************************************************************)
(* C16: in the Report workflow every declared state other than the initial *)
(* state draft is reachable from draft by some sequence of transitions.    *)
(***************************************************************************)
RECURSIVE ReachableFrom(_)
ReachableFrom(S) ==
    LET more == S \cup {Target(t) : t \in {u \in TransitionNames : Source(u) \cap S # {}}}
    IN  IF more = S THEN S ELSE ReachableFrom(more)

C16_EveryStateReachable ==
    state = initial_state => States \ {state} \subseteq ReachableFrom({state})

(***************************************************************************)
(* C19: after any sequence of calls, an empty history means the state is   *)
(* the initial state; otherwise the state is the target of the transition  *)
(* named in the last history entry; and the history has one entry per call *)
(* that returned successfully (a call adds an entry exactly when it        *)
(* succeeds).                                                              *)
(***************************************************************************)
C19_HistoryMatchesState ==
    /\ history = <<>> => state = "draft"
    /\ history # <<>> =>
            \E t \in TransitionNames, a \in ActorNames :
                /\ history[Len(history)] = a \o ": " \o t
                /\ state = Target(t)
    /\ IsCall => Len(history) = Len(last.history0) + (IF last.err = NoError THEN 1 ELSE 0)

(***************************************************************************)
(* C20: a report with neither content (None or empty) nor keywords never   *)
(* leaves draft while those attributes stay as they are: prepare is        *)
(* rejected by check_any with 'All checks failed for prepare', every other *)
(* transition is not available from draft, and the history stays empty.    *)
(***************************************************************************)
C20_BareReportStaysDraft ==
    /\ state = "draft"
    /\ history = <<>>
    /\ (IsCall /\ last.name = "prepare") =>
            /\ last.err = Exception("All checks failed for prepare")
            /\ StepsOfKind("effect") = <<>>
    /\ (IsCall /\ last.name # "prepare") =>
            last.err = [type |-> "InvalidTransitionError",
                        msg  |-> "Transition '" \o last.name
                                    \o "' isn't available from state 'draft'."]

C20_Witness ==
    /\ IsCall /\ last.name = "prepare" /\ last.args = <<PyStr("Larry")>>
    /\ content = PyStr("") /\ keywords = <<>>
    /\ last.err.type = "Exception" /\ state = "draft"

(***************************************************************************)
(* C11: make_workflow rejects, with a WorkflowDefinitionError, every       *)
(* specification in which a transition's target or one of its sources is   *)
(* not a declared state, or whose initial_state is not a declared state,   *)
(* and no workflow definition results; a specification that names only     *)
(* declared states yields its definition.                                  *)
(***************************************************************************)
MadeFrom == factory.input.spec
DeclaredIn(spec) == {spec.states[i].name : i \in DOMAIN spec.states}

NamesOnlyDeclared(spec) ==
    /\ \A k \in DOMAIN spec.transitions :
            /\ spec.transitions[k].target \in DeclaredIn(spec)
            /\ \A j \in DOMAIN spec.transitions[k].sources :
                    spec.transitions[k].sources[j] \in DeclaredIn(spec)
    /\ spec.initial_state \in DeclaredIn(spec)

C11_MakeWorkflowRejectsUndeclared ==
    factory.op = "make_workflow" =>
        IF NamesOnlyDeclared(MadeFrom)
        THEN /\ factory.returned
             /\ factory.value.initial_state = MadeFrom.initial_state
        ELSE /\ ~factory.returned
             /\ factory.err.type = "WorkflowDefinitionError"
             /\ factory.value = NoValue

C11_Witness ==
    /\ factory.op = "make_workflow"
    /\ MadeFrom.initial_state = "ghost"
    /\ MadeFrom.transitions = <<TransitionDef(<<"draft">>, "ready")>>
    /\ factory.err.type = "WorkflowDefinitionError"

(***************************************************************************)
(* C17: when load_json_workflows reads a file with several workflows of    *)
(* which one is malformed or invalid, only that workflow is prevented from *)
(* being built and the others are returned usable; a file whose workflows  *)
(* are all valid yields exactly one definition per declared workflow name. *)
(***************************************************************************)
Buildable(spec) ==
    /\ {"states", "transitions", "initial_state"} \subseteq DOMAIN spec
    /\ NamesOnlyDeclared(spec)

C17_LoaderIsolatesFailures ==
    factory.op = "load_json_workflows" =>
        LET file == factory.input
            good == {file[i].name : i \in {j \in DOMAIN file : Buildable(file[j].spec)}}
        IN  /\ factory.returned \/ good = {}
            /\ factory.returned => DOMAIN factory.value = good

(***************************************************************************)
(* C18: reports that share one workflow definition are independent: a      *)
(* transition call on one report, whether it succeeds or fails, leaves the *)
(* state and the history of every other report as they were.               *)
(***************************************************************************)
HistoryOf(reports, lists, r) == lists[reports[r].history]

C18_OtherReportsUntouched ==
    \A r \in DOMAIN siblings.reports :
        r # siblings.last.report =>
            /\ siblings.reports[r].state = siblings.last.reports0[r].state
            /\ HistoryOf(siblings.reports, siblings.lists, r)
                    = HistoryOf(siblings.last.reports0, siblings.last.lists0, r)

C18_Witness ==
    /\ siblings.last.report = 1 /\ siblings.last.name = "finish"
    /\ siblings.last.err = NoError
    /\ siblings.reports[1].state = "complete"
    /\ siblings.reports[2].state = "ready"
    /\ HistoryOf(siblings.reports, siblings.lists, 1) = <<"Larry: prepare", "Larry: finish">>
    /\ HistoryOf(siblings.reports, siblings.lists, 2) = <<"Larry: prepare", "Larry: prepare">>

(***************************************************************************)
(* C15: two concurrent transition calls on the same report serialize: no   *)
(* interleaving lets a transition take effect from a state that is not     *)
(* among its sources, and, once no call is in progress, the history is the *)
(* record of the state changes, one entry per change: its transitions, in  *)
(* order, lead from draft to the current state.                            *)
(***************************************************************************)
TransitionOf(entry) ==
    CHOOSE t \in TransitionNames : \E a \in ActorNames : entry = a \o ": " \o t

StateAfter(i) == IF i = 0 THEN "draft" ELSE Target(TransitionOf(history[i]))

C15_ConcurrentCallsSerialize ==
    /\ \A th \in DOMAIN threads :
            (threads[th].pc = "done" /\ threads[th].err = NoError) =>
                threads[th].from \in Source(threads[th].name)
    /\ (\A th \in DOMAIN threads : threads[th].pc \in {"idle", "done"}) =>
            /\ \A i \in DOMAIN history : StateAfter(i - 1) \in Source(TransitionOf(history[i]))
            /\ state = StateAfter(Len(history))

(***************************************************************************)
(* C21: check_any over an empty list of check names rejects every call     *)
(* with 'All checks failed for <transition>' (0 failures out of 0 checks), *)
(* and the method never runs; check_all over an empty list always runs the *)
(* method.  Neither evaluates any check.                                   *)
(***************************************************************************)
C21_EmptyCheckLists ==
    (GuardedCall /\ Names = <<>>) =>
        /\ Evaluated = <<>>
        /\ Combinator = "check_any" =>
                /\ last.err = [type |-> "Exception",
                               msg  |-> "All checks failed for " \o last.name]
                /\ EffectRuns = 0
                /\ StepsOfKind("history") = <<>>
                /\ Unchanged
        /\ Combinator = "check_all" =>
                /\ EffectRuns = 1
                /\ last.err = NoError
                /\ state = Target(last.name)

C21_Witness ==
    /\ GuardedCall /\ Names = <<>> /\ Combinator = "check_any"
    /\ last.name = "prepare" /\ ContentIsSet /\ keywords # <<>>
    /\ last.err = Exception("All checks failed for prepare")
    /\ state = "draft"

====
